---- MODULE Spec2Model ----
(***************************************************************************)
(* A model of src/socket_impl.c, the TCP client primitive of ibmoonc: the  *)
(* static handle table (sockets, socket_count, next_socket_id) and the     *)
(* four entry points ibmoon_socket_connect / _send / _receive / _close.    *)
(* The POSIX branch of every #ifdef is the one modelled.  The operating    *)
(* system is modelled by the descriptor table fds of the process (0, 1, 2  *)
(* open on the terminal when it starts) and by the outcomes each system    *)
(* call can have on it.  A handler is one atomic step: the caller is       *)
(* single-threaded and every call blocks until it returns.                 *)
(***************************************************************************)
EXTENDS Integers, Sequences, FiniteSets, TLC

(* ---- program constants (socket_impl.c:25-39) ---- *)
INVALID_SOCKET == -1
SOCKET_ERROR == -1
ERROR_NONE == 0
ERROR_CONNECTION_REFUSED == 1
ERROR_TIMEOUT == 2
ERROR_CLOSED == 3
ERROR_INVALID_SOCKET == 4
ERROR_UNKNOWN == 5
MAX_SOCKETS == 256

(* ---- bounds of the model ---- *)
\* successful connects explored by Spec (next_socket_id stays <= MaxConnects + 1)
MaxConnects == 1
\* identifiers minted by SpecFill: enough to fill the table and wrap around it
MaxFill == 258
\* largest length / buffer_len a caller passes
MaxLen == 1
\* bytes the peers send in total
MaxPeerBytes == 1
\* largest timeout_ms a caller passes
MaxTimeout == 1

VARIABLES
    sockets,         \* static SOCKET sockets[MAX_SOCKETS]
    socket_count,    \* static int socket_count
    next_socket_id,  \* static int next_socket_id
    fds,             \* the process's open descriptors: fd -> what the kernel holds for it
    out,             \* the triple written to *out_success, *out_value, *out_error
    last,            \* the step just taken: the call, its arguments and what the OS did
    live,            \* history: identifier -> descriptor registered for it, for every
                     \* identifier returned by a successful connect and not yet closed
    returned,        \* history: every identifier a successful connect has returned
    closeCalled,     \* history: ibmoon_socket_close has been called at least once
    peerSent         \* bytes the peers have sent so far

vars == <<sockets, socket_count, next_socket_id, fds, out, last, live, returned,
          closeCalled, peerSent>>

table == <<sockets, socket_count, next_socket_id>>

(* ---- the operating system ---- *)

\* what the kernel holds for a descriptor that is not a socket (stdin, stdout, stderr)
Tty == [kind |-> "tty", peer |-> "none", rx |-> <<>>, rcvtimeo |-> 0]

\* a TCP socket: the state of the connection, the bytes queued for reading, SO_RCVTIMEO
Sock(peer) == [kind |-> "sock", peer |-> peer, rx |-> <<>>, rcvtimeo |-> 0]

\* socket(2) returns the lowest descriptor that is not open
lowest_free(f) ==
    CHOOSE n \in 0..Cardinality(DOMAIN f) :
        n \notin DOMAIN f /\ \A m \in 0..(n - 1) : m \in DOMAIN f

\* the descriptor table with fd open on s
os_open(f, fd, s) == [x \in DOMAIN f \cup {fd} |-> IF x = fd THEN s ELSE f[x]]

\* close(2): the descriptor is released
os_close(f, fd) == [x \in DOMAIN f \ {fd} |-> f[x]]

\* errno once close(2) has run after a failed call that left errno = e.  POSIX leaves
\* errno unspecified after a call that succeeds, and close(2) sets it when it fails
\* (EINTR): it is e or the value close left.  The descriptor is released either way.
close_errno(e) == {e, "EINTR"}

\* setsockopt(SO_RCVTIMEO): takes effect on a socket, fails (unchecked) on anything else
os_set_rcvtimeo(f, fd, ms) ==
    IF fd \in DOMAIN f /\ f[fd].kind = "sock"
    THEN [f EXCEPT ![fd].rcvtimeo = ms]
    ELSE f

Min(a, b) == IF a <= b THEN a ELSE b

\* send(2) of length bytes on a blocking descriptor: the set of (return value, errno)
\* it can produce; empty while the call cannot return (the connect is still in progress)
os_send(f, fd, length) ==
    IF fd \notin DOMAIN f THEN {[ret |-> SOCKET_ERROR, errno |-> "EBADF"]}
    ELSE IF f[fd].kind # "sock" THEN {[ret |-> SOCKET_ERROR, errno |-> "ENOTSOCK"]}
    ELSE IF f[fd].peer = "reset"
         THEN {[ret |-> SOCKET_ERROR, errno |-> e] : e \in {"ECONNRESET", "EPIPE"}}
    ELSE IF f[fd].peer = "refused"
         THEN {[ret |-> SOCKET_ERROR, errno |-> "ECONNREFUSED"]}
    ELSE IF f[fd].peer = "connecting" THEN {}
    ELSE IF length = 0 THEN {[ret |-> 0, errno |-> "OK"]}
    ELSE {[ret |-> n, errno |-> "OK"] : n \in 1..length}

\* recv(2) of up to buffer_len bytes on a blocking descriptor: the set of
\* (return value, errno, bytes left queued) it can produce; empty while it blocks
\* with no receive timeout
os_recv(f, fd, buffer_len) ==
    IF fd \notin DOMAIN f
    THEN {[ret |-> SOCKET_ERROR, errno |-> "EBADF", rx |-> <<>>]}
    ELSE IF f[fd].kind # "sock"
    THEN {[ret |-> SOCKET_ERROR, errno |-> "ENOTSOCK", rx |-> <<>>]}
    ELSE IF f[fd].peer = "reset"
    THEN {[ret |-> SOCKET_ERROR, errno |-> "ECONNRESET", rx |-> <<>>]}
    ELSE IF f[fd].peer = "refused"
    THEN {[ret |-> SOCKET_ERROR, errno |-> "ECONNREFUSED", rx |-> <<>>]}
    ELSE IF buffer_len = 0
    THEN {[ret |-> 0, errno |-> "OK", rx |-> f[fd].rx]}
    ELSE IF f[fd].rx # <<>>
    THEN {[ret |-> n, errno |-> "OK",
           rx |-> SubSeq(f[fd].rx, n + 1, Len(f[fd].rx))] :
              n \in 1..Min(buffer_len, Len(f[fd].rx))}
    ELSE IF f[fd].peer = "shut"
    THEN {[ret |-> 0, errno |-> "OK", rx |-> <<>>]}
    ELSE IF f[fd].rcvtimeo > 0
    THEN {[ret |-> SOCKET_ERROR, errno |-> "EAGAIN", rx |-> <<>>]}
    ELSE {}

(* ---- the handle table ---- *)

\* get_socket_error() with the default case returning ERROR_NONE
get_socket_error_default_none(errno) ==
    CASE errno = "ECONNREFUSED" -> ERROR_CONNECTION_REFUSED
      [] errno = "ETIMEDOUT" -> ERROR_TIMEOUT
      [] errno \in {"ECONNRESET", "EPIPE"} -> ERROR_CLOSED
      [] OTHER -> ERROR_NONE

\* get_socket_error(): errno to the error code
get_socket_error(errno) ==
    CASE errno = "ECONNREFUSED" -> ERROR_CONNECTION_REFUSED
      [] errno = "ETIMEDOUT" -> ERROR_TIMEOUT
      [] errno \in {"ECONNRESET", "EPIPE"} -> ERROR_CLOSED
      [] OTHER -> ERROR_UNKNOWN

\* find_socket(socket_id)
find_socket(socket_id) == sockets[socket_id % MAX_SOCKETS]

\* store_socket() with the capacity test off by one (> for >=)
store_socket_late_check(sock) ==
    IF socket_count > MAX_SOCKETS
    THEN [ret |-> -1, sockets |-> sockets, socket_count |-> socket_count,
          next_socket_id |-> next_socket_id]
    ELSE [ret |-> next_socket_id,
          sockets |-> [sockets EXCEPT ![next_socket_id % MAX_SOCKETS] = sock],
          socket_count |-> socket_count + 1,
          next_socket_id |-> next_socket_id + 1]

store_socket_counts_attempts(sock) ==
    IF socket_count >= MAX_SOCKETS
    THEN [ret |-> -1, sockets |-> sockets, socket_count |-> socket_count,
          next_socket_id |-> next_socket_id + 1]
    ELSE [ret |-> next_socket_id,
          sockets |-> [sockets EXCEPT ![next_socket_id % MAX_SOCKETS] = sock],
          socket_count |-> socket_count + 1,
          next_socket_id |-> next_socket_id + 1]

\* store_socket(sock): the return value and the statics after it
store_socket(sock) ==
    IF socket_count >= MAX_SOCKETS
    THEN [ret |-> -1, sockets |-> sockets, socket_count |-> socket_count,
          next_socket_id |-> next_socket_id]
    ELSE [ret |-> next_socket_id,
          sockets |-> [sockets EXCEPT ![next_socket_id % MAX_SOCKETS] = sock],
          socket_count |-> socket_count + 1,
          next_socket_id |-> next_socket_id + 1]

\* remove_socket(socket_id): the statics and the descriptor table after it
remove_socket(socket_id) ==
    LET idx == socket_id % MAX_SOCKETS IN
    IF sockets[idx] # INVALID_SOCKET
    THEN [sockets |-> [sockets EXCEPT ![idx] = INVALID_SOCKET],
          socket_count |-> socket_count - 1,
          fds |-> os_close(fds, sockets[idx])]
    ELSE [sockets |-> sockets, socket_count |-> socket_count, fds |-> fds]

(* ---- results and the record of the step ---- *)

Ret(success, value, error) == [success |-> success, value |-> value, error |-> error]

\* the record of a call: op and arguments, the descriptor created (connect) or handed to
\* the OS (send, receive, close), what the OS did and the errno of the failing call, and
\* whether the identifier was live when the call was made and the descriptor registered
\* for it
Step(op, id, tmo, fd, new, ev, errno) ==
    [op |-> op, id |-> id, tmo |-> tmo, fd |-> fd, new |-> new, ev |-> ev,
     errno |-> errno,
     wasLive |-> id \in DOMAIN live,
     reg |-> IF id \in DOMAIN live THEN live[id] ELSE INVALID_SOCKET,
     len |-> 0, ret |-> 0, calls |-> 0, buf |-> <<>>]

\* the record of a send or a receive: the length or buffer_len passed, what send() or
\* recv() returned, how many times it was called, and the bytes recv() put in the buffer
StepIO(step, len, ret, calls, buf) ==
    [step EXCEPT !.len = len, !.ret = ret, !.calls = calls, !.buf = buf]

NoStep == [op |-> "none", id |-> 0, tmo |-> 0, fd |-> INVALID_SOCKET,
           new |-> INVALID_SOCKET, ev |-> "none", errno |-> "OK",
           wasLive |-> FALSE, reg |-> INVALID_SOCKET,
           len |-> 0, ret |-> 0, calls |-> 0, buf |-> <<>>]

PeerStep == [NoStep EXCEPT !.op = "peer"]

(* ---- ibmoon_socket_connect ---- *)

\* a failure path that returns without close(sock)
fail_close_leak(f, sock, error) ==
    /\ fds' = f
    /\ out' = Ret(0, 0, error)
    /\ UNCHANGED <<table, live, returned, closeCalled, peerSent>>

\* a path that gives up after socket() succeeded: close(sock), then the failure triple
fail_close(f, sock, error) ==
    /\ fds' = os_close(f, sock)
    /\ out' = Ret(0, 0, error)
    /\ UNCHANGED <<table, live, returned, closeCalled, peerSent>>

\* lines 241-266: blocking mode restored, then store_socket and the two returns
connect_register(f, sock, timeout_ms, ev) ==
    LET st == store_socket(sock) IN
    IF st.ret < 0
    THEN /\ fds' = os_close(f, sock)
         /\ sockets' = st.sockets
         /\ socket_count' = st.socket_count
         /\ next_socket_id' = st.next_socket_id
         /\ out' = Ret(0, 0, ERROR_UNKNOWN)
         /\ last' = Step("connect", 0, timeout_ms, INVALID_SOCKET, sock, ev, "OK")
         /\ UNCHANGED <<live, returned, closeCalled, peerSent>>
    ELSE /\ fds' = f
         /\ sockets' = st.sockets
         /\ socket_count' = st.socket_count
         /\ next_socket_id' = st.next_socket_id
         /\ out' = Ret(1, st.ret, ERROR_NONE)
         /\ live' = [x \in DOMAIN live \cup {st.ret} |->
                        IF x = st.ret THEN sock ELSE live[x]]
         /\ returned' = returned \cup {st.ret}
         /\ last' = Step("connect", 0, timeout_ms, INVALID_SOCKET, sock, ev, "OK")
         /\ UNCHANGED <<closeCalled, peerSent>>

\* what socket(2), connect(2), select(2) and getsockopt(SO_ERROR) can answer
SocketOutcomes == {"ok", "EMFILE"}
ConnectOutcomes == {"OK", "EINPROGRESS", "ECONNREFUSED", "ENETUNREACH"}
SelectOutcomes == {1, 0, -1}
PendingErrors == {"OK", "ECONNREFUSED", "ETIMEDOUT"}

\* line 198 with >= for >: a zero timeout waits too
waits_for_zero_too(timeout_ms) == timeout_ms >= 0

\* line 198: the readiness wait is made only for a positive timeout
waits(timeout_ms) == timeout_ms > 0

\* lines 227-236 with the pending error sent through get_socket_error()
pending_error_mapped(error) == get_socket_error(error)

\* lines 227-236: the code reported for a pending error that is not zero
pending_error_code(error) == ERROR_CONNECTION_REFUSED

ibmoon_socket_connect(host_ok, timeout_ms, sk, c) ==
    IF sk # "ok"
    THEN \* socket() failed: nothing was created
         /\ out' = Ret(0, 0, ERROR_UNKNOWN)
         /\ last' = Step("connect", 0, timeout_ms, INVALID_SOCKET, INVALID_SOCKET,
                         "socket_failed", sk)
         /\ UNCHANGED <<table, fds, live, returned, closeCalled, peerSent>>
    ELSE
    LET sock == lowest_free(fds)
        f1 == os_open(fds, sock, Sock("connecting"))
        est == os_open(fds, sock, Sock("open"))
    IN
    IF ~host_ok
    THEN \* inet_pton() <= 0
         /\ fail_close(f1, sock, ERROR_UNKNOWN)
         /\ last' = Step("connect", 0, timeout_ms, INVALID_SOCKET, sock,
                         "bad_address", "OK")
    ELSE IF c = "OK"
    THEN connect_register(est, sock, timeout_ms, "connected")
    ELSE IF c # "EINPROGRESS"
    THEN \* close(sock) runs before get_socket_error() reads errno
         \E e \in close_errno(c) :
            /\ fail_close(f1, sock, get_socket_error(e))
            /\ last' = Step("connect", 0, timeout_ms, INVALID_SOCKET, sock,
                            "connect_failed", c)
    ELSE IF waits(timeout_ms)
    THEN \E sel \in SelectOutcomes :
            IF sel <= 0
            THEN /\ fail_close(f1, sock,
                               IF sel = 0 THEN ERROR_TIMEOUT ELSE ERROR_UNKNOWN)
                 /\ last' = Step("connect", 0, timeout_ms, INVALID_SOCKET, sock,
                                 IF sel = 0 THEN "wait_expired" ELSE "wait_failed",
                                 "EINPROGRESS")
            ELSE \E error \in PendingErrors :
                    IF error # "OK"
                    THEN /\ fail_close(f1, sock, pending_error_code(error))
                         /\ last' = Step("connect", 0, timeout_ms, INVALID_SOCKET,
                                         sock, "pending_error", error)
                    ELSE connect_register(est, sock, timeout_ms, "ready")
    ELSE \* timeout_ms <= 0: the connect in progress is taken as it is
         connect_register(f1, sock, timeout_ms, "in_progress")

(* ---- ibmoon_socket_send ---- *)

\* lines 275-280, 302-307, 350-355: the identifier resolves to the sentinel
invalid_socket(op, socket_id, timeout_ms) ==
    /\ out' = Ret(0, 0, ERROR_INVALID_SOCKET)
    /\ last' = Step(op, socket_id, timeout_ms, INVALID_SOCKET, INVALID_SOCKET,
                    "invalid", "OK")
    /\ UNCHANGED <<table, fds, returned, peerSent>>

\* lines 284-289: send() failed
send_failed(socket_id, errno) ==
    /\ out' = Ret(0, 0, get_socket_error(errno))
    /\ UNCHANGED <<table, fds>>

\* send() called again until every byte is taken: what a retry loop would report
send_until_done(f, sock, length) ==
    {[ret |-> IF r.ret = SOCKET_ERROR THEN r.ret ELSE length,
      errno |-> r.errno,
      first |-> r.ret,
      calls |-> IF r.ret = SOCKET_ERROR \/ r.ret = length THEN 1 ELSE 2] :
        r \in os_send(f, sock, length)}

\* line 282: send() is called once; first is what that call returned
send_call(f, sock, length) ==
    {[ret |-> r.ret, errno |-> r.errno, first |-> r.ret, calls |-> 1] :
        r \in os_send(f, sock, length)}

ibmoon_socket_send(socket_id, length) ==
    LET sock == find_socket(socket_id) IN
    IF sock = INVALID_SOCKET
    THEN invalid_socket("send", socket_id, 0) /\ UNCHANGED <<live, closeCalled>>
    ELSE \E r \in send_call(fds, sock, length) :
            /\ IF r.ret = SOCKET_ERROR
               THEN send_failed(socket_id, r.errno)
               ELSE /\ out' = Ret(1, r.ret, ERROR_NONE)
                    /\ UNCHANGED <<table, fds>>
            /\ last' = StepIO(Step("send", socket_id, 0, sock, INVALID_SOCKET,
                                   IF r.ret = SOCKET_ERROR THEN "failed" ELSE "sent",
                                   r.errno),
                              length, r.first, r.calls, <<>>)
            /\ UNCHANGED <<live, returned, closeCalled, peerSent>>

(* ---- ibmoon_socket_receive ---- *)

\* a failed recv() that also releases the handle
recv_failed_releases(socket_id, errno, f) ==
    /\ out' = Ret(0, 0, get_socket_error(errno))
    /\ fds' = os_close(f, find_socket(socket_id))
    /\ sockets' = [sockets EXCEPT ![socket_id % MAX_SOCKETS] = INVALID_SOCKET]
    /\ socket_count' = socket_count - 1
    /\ UNCHANGED next_socket_id

\* lines 324-329: recv() failed; f is the descriptor table after the call
recv_failed(socket_id, errno, f) ==
    /\ out' = Ret(0, 0, get_socket_error(errno))
    /\ fds' = f
    /\ UNCHANGED table

\* lines 331-337: recv() returned 0
recv_closed(socket_id, f) ==
    /\ out' = Ret(0, 0, ERROR_CLOSED)
    /\ fds' = f
    /\ UNCHANGED table

\* lines 310-320 with the option set on every call, a zero timeout clearing it
set_timeout_always(f, sock, timeout_ms) ==
    IF timeout_ms >= 0 THEN os_set_rcvtimeo(f, sock, timeout_ms) ELSE f

\* lines 310-320: SO_RCVTIMEO is set when timeout_ms > 0 and left alone otherwise
set_timeout(f, sock, timeout_ms) ==
    IF timeout_ms > 0 THEN os_set_rcvtimeo(f, sock, timeout_ms) ELSE f

ibmoon_socket_receive(socket_id, buffer_len, timeout_ms) ==
    LET sock == find_socket(socket_id) IN
    IF sock = INVALID_SOCKET
    THEN invalid_socket("receive", socket_id, timeout_ms)
         /\ UNCHANGED <<live, closeCalled>>
    ELSE
    LET f1 == set_timeout(fds, sock, timeout_ms)
    IN \E r \in os_recv(f1, sock, buffer_len) :
        LET f2 == IF sock \in DOMAIN f1 /\ f1[sock].kind = "sock"
                  THEN [f1 EXCEPT ![sock].rx = r.rx] ELSE f1
        IN
        /\ IF r.ret = SOCKET_ERROR THEN recv_failed(socket_id, r.errno, f2)
           ELSE IF r.ret = 0 THEN recv_closed(socket_id, f2)
           ELSE /\ out' = Ret(1, r.ret, ERROR_NONE)
                /\ fds' = f2
                /\ UNCHANGED table
        /\ last' = StepIO(Step("receive", socket_id, timeout_ms, sock, INVALID_SOCKET,
                               IF r.errno = "EAGAIN" THEN "rcvtimeo"
                               ELSE IF r.ret = SOCKET_ERROR THEN "failed"
                               ELSE IF r.ret > 0 THEN "data"
                               ELSE IF buffer_len > 0 THEN "eof" ELSE "empty_read",
                               r.errno),
                          buffer_len, r.ret, 1,
                          IF r.ret > 0 THEN SubSeq(f1[sock].rx, 1, r.ret) ELSE <<>>)
        /\ UNCHANGED <<live, returned, closeCalled, peerSent>>

(* ---- ibmoon_socket_close ---- *)

ibmoon_socket_close(socket_id) ==
    LET sock == find_socket(socket_id)
        rm == remove_socket(socket_id)
    IN
    /\ live' = [x \in DOMAIN live \ {socket_id} |-> live[x]]
    /\ closeCalled' = TRUE
    /\ IF sock = INVALID_SOCKET
       THEN invalid_socket("close", socket_id, 0)
       ELSE /\ sockets' = rm.sockets
            /\ socket_count' = rm.socket_count
            /\ fds' = rm.fds
            /\ out' = Ret(1, 0, ERROR_NONE)
            /\ last' = Step("close", socket_id, 0, sock, INVALID_SOCKET, "closed", "OK")
            /\ UNCHANGED <<next_socket_id, returned, peerSent>>

(* ---- the peers ---- *)

SocketFds == {fd \in DOMAIN fds : fds[fd].kind = "sock"}

PeerFrame ==
    /\ last' = PeerStep
    /\ UNCHANGED <<table, out, live, returned, closeCalled>>

\* the peer sends one byte; the bytes are numbered as they are sent
PeerSend(fd) ==
    /\ fds[fd].peer = "open"
    /\ peerSent < MaxPeerBytes
    /\ peerSent' = peerSent + 1
    /\ fds' = [fds EXCEPT ![fd].rx = Append(@, peerSent + 1)]
    /\ PeerFrame

\* the peer shuts its end down in an orderly way (FIN)
PeerShutdown(fd) ==
    /\ fds[fd].peer = "open"
    /\ fds' = [fds EXCEPT ![fd].peer = "shut"]
    /\ UNCHANGED peerSent
    /\ PeerFrame

\* the peer resets the connection (RST): what was queued is dropped
PeerReset(fd) ==
    /\ fds[fd].peer \in {"open", "shut"}
    /\ fds' = [fds EXCEPT ![fd].peer = "reset", ![fd].rx = <<>>]
    /\ UNCHANGED peerSent
    /\ PeerFrame

\* a connect left in progress completes or is refused
PeerAnswer(fd, how) ==
    /\ fds[fd].peer = "connecting"
    /\ fds' = [fds EXCEPT ![fd].peer = how]
    /\ UNCHANGED peerSent
    /\ PeerFrame

(* ---- the specifications ---- *)

Init ==
    /\ sockets = [i \in 0..(MAX_SOCKETS - 1) |-> 0]
    /\ socket_count = 0
    /\ next_socket_id = 1
    /\ fds = [fd \in 0..2 |-> Tty]
    /\ out = Ret(0, 0, ERROR_NONE)
    /\ last = NoStep
    /\ live = <<>>
    /\ returned = {}
    /\ closeCalled = FALSE
    /\ peerSent = 0

\* the identifiers a caller passes: those the connects can return, and one that no
\* connect returns and that shares its slot with identifier 1
IdInputs == 1..MaxConnects \cup {MAX_SOCKETS + 1}
\* timeout_ms: none, or a positive one
TimeoutInputs == {0, MaxTimeout}
LenInputs == 0..MaxLen

Connect ==
    /\ next_socket_id <= MaxConnects
    /\ \E host_ok \in BOOLEAN, timeout_ms \in TimeoutInputs,
          sk \in SocketOutcomes, c \in ConnectOutcomes :
            ibmoon_socket_connect(host_ok, timeout_ms, sk, c)

Send == \E id \in IdInputs, length \in LenInputs : ibmoon_socket_send(id, length)

Receive ==
    \E id \in IdInputs, buffer_len \in LenInputs, timeout_ms \in TimeoutInputs :
        ibmoon_socket_receive(id, buffer_len, timeout_ms)

Close == \E id \in IdInputs : ibmoon_socket_close(id)

Peer ==
    \E fd \in SocketFds :
        \/ PeerSend(fd)
        \/ PeerShutdown(fd)
        \/ PeerReset(fd)
        \/ \E how \in {"open", "refused"} : PeerAnswer(fd, how)

Next == Connect \/ Send \/ Receive \/ Close \/ Peer

Spec == Init /\ [][Next]_vars

(***************************************************************************)
(* SpecFill: a caller that uses only identifiers it holds (returned by a   *)
(* successful connect and not closed since), and connects often enough to  *)
(* fill the table and to wrap the identifiers around it.                   *)
(***************************************************************************)

\* the identifiers this caller sends on, receives on and closes, once it holds them
FillIds == {1, 2, MAX_SOCKETS + 1}

\* the caller uses its connections while it has made at most two, and again once the
\* identifiers have gone round the table; in between it only connects
FillUsing == next_socket_id <= 3 \/ next_socket_id > MAX_SOCKETS

FillConnect ==
    /\ next_socket_id <= MaxFill
    /\ ibmoon_socket_connect(TRUE, 0, "ok", "OK")

\* with no connection open and with the table full, its connects meet every
\* outcome the OS can give
FillConnectAny ==
    /\ socket_count = 0 \/ socket_count >= MAX_SOCKETS
    /\ next_socket_id <= MaxFill
    /\ \E host_ok \in BOOLEAN, timeout_ms \in TimeoutInputs,
          sk \in SocketOutcomes, c \in ConnectOutcomes :
            ibmoon_socket_connect(host_ok, timeout_ms, sk, c)

FillSend ==
    /\ FillUsing
    /\ \E id \in FillIds \cap DOMAIN live : ibmoon_socket_send(id, 1)

FillReceive ==
    /\ FillUsing
    /\ \E id \in FillIds \cap DOMAIN live : ibmoon_socket_receive(id, 1, MaxTimeout)

FillClose ==
    /\ FillUsing
    /\ \E id \in FillIds \cap DOMAIN live : ibmoon_socket_close(id)

\* the peer of the first connection shuts its end down
FillPeer ==
    /\ FillUsing
    /\ 1 \in DOMAIN live
    /\ live[1] \in SocketFds
    /\ PeerShutdown(live[1])

NextFill ==
    FillConnect \/ FillConnectAny \/ FillSend \/ FillReceive \/ FillClose \/ FillPeer

SpecFill == Init /\ [][NextFill]_vars

(***************************************************************************)
(* SpecIO: one connection, used only while the caller holds it, with every *)
(* length, buffer size and timeout a caller can pass to it: negative, zero *)
(* and two that differ.                                                    *)
(***************************************************************************)

IoLens == 0..(MaxLen + 1)
IoTimeouts == -1..(MaxTimeout + 1)

IoConnect ==
    /\ next_socket_id = 1
    /\ \E host_ok \in BOOLEAN, timeout_ms \in IoTimeouts,
          sk \in SocketOutcomes, c \in ConnectOutcomes :
            ibmoon_socket_connect(host_ok, timeout_ms, sk, c)

IoSend == \E id \in DOMAIN live, length \in IoLens : ibmoon_socket_send(id, length)

IoReceive ==
    \E id \in DOMAIN live, buffer_len \in IoLens, timeout_ms \in IoTimeouts :
        ibmoon_socket_receive(id, buffer_len, timeout_ms)

IoClose == \E id \in DOMAIN live : ibmoon_socket_close(id)

NextIO == IoConnect \/ IoSend \/ IoReceive \/ IoClose \/ Peer

SpecIO == Init /\ [][NextIO]_vars

(***************************************************************************)
(* The claims                                                              *)
(***************************************************************************)

Calls == {"connect", "send", "receive", "close"}

\* the descriptors open in the process
OpenFds == DOMAIN fds

\* C1: a send, receive or close with an identifier that no successful connect
\* returned, or that has been closed since, returns {false, 0, InvalidSocket} and
\* hands no descriptor to the OS.
C1_InvalidIdentifierRejected ==
    (last.op \in {"send", "receive", "close"} /\ ~last.wasLive)
        => (out = Ret(0, 0, ERROR_INVALID_SOCKET) /\ last.fd = INVALID_SOCKET)

\* C2: a send, receive or close with an identifier returned by a successful connect
\* and not closed since reaches exactly the descriptor that connect registered.
C2_LiveIdentifierResolves ==
    (last.op \in {"send", "receive", "close"} /\ last.wasLive)
        => last.fd = last.reg

\* C3: after MAX_SOCKETS successful connects and no call of close, a connect whose
\* OS-level connection succeeds returns {false, 0, Unknown}, has closed the socket it
\* created and leaves sockets, socket_count and next_socket_id as they were.
C3_TableFull ==
    [][(/\ Cardinality(returned) = MAX_SOCKETS
        /\ ~closeCalled
        /\ last'.op = "connect"
        /\ last'.ev \in {"connected", "ready", "in_progress"})
          => (/\ out' = Ret(0, 0, ERROR_UNKNOWN)
              /\ last'.new \notin DOMAIN fds'
              /\ fds' = fds
              /\ UNCHANGED table)]_vars

\* C3 witness: the connect after the MAX_SOCKETS-th has been refused by the table
C3_Witness ==
    /\ Cardinality(returned) = MAX_SOCKETS
    /\ ~closeCalled
    /\ last.op = "connect"
    /\ last.ev = "connected"
    /\ out = Ret(0, 0, ERROR_UNKNOWN)
    /\ socket_count = MAX_SOCKETS
    /\ next_socket_id = MAX_SOCKETS + 1

\* C4: every return writes either success with ERROR_NONE, or failure with one of the
\* five error codes and value 0.
C4_ResultShape ==
    last.op \in Calls =>
        \/ out.success = 1 /\ out.error = ERROR_NONE
        \/ /\ out.success = 0
           /\ out.error \in {ERROR_CONNECTION_REFUSED, ERROR_TIMEOUT, ERROR_CLOSED,
                             ERROR_INVALID_SOCKET, ERROR_UNKNOWN}
           /\ out.value = 0

\* C4 witness: a failure on a live connection whose code get_socket_error() chose in its
\* default case
C4_Witness ==
    /\ last.op = "receive"
    /\ last.wasLive
    /\ last.fd = last.reg
    /\ last.errno = "EAGAIN"
    /\ out = Ret(0, 0, ERROR_UNKNOWN)

\* C5: a connect that returns failure has closed the socket it created and leaves
\* sockets, socket_count and next_socket_id as they were; a connect that returns success
\* leaves its socket open, registered under the identifier it returns.
C5_FailedConnectReleases ==
    [][last'.op = "connect" =>
        /\ out'.success = 0 =>
              /\ last'.new \notin DOMAIN fds'
              /\ DOMAIN fds' = DOMAIN fds
              /\ UNCHANGED table
        /\ out'.success = 1 =>
              /\ last'.new \in DOMAIN fds' \ DOMAIN fds
              /\ sockets'[out'.value % MAX_SOCKETS] = last'.new]_vars

\* C5 witness: a connect gave up after its readiness wait expired, its socket closed
C5_Witness ==
    /\ last.op = "connect"
    /\ last.ev = "wait_expired"
    /\ last.new # INVALID_SOCKET
    /\ last.new \notin OpenFds
    /\ out = Ret(0, 0, ERROR_TIMEOUT)

\* C6: a send or a receive, whatever its outcome, closes no descriptor and leaves
\* sockets, socket_count and next_socket_id as they were, so the identifier resolves
\* after the call to the descriptor it resolved to before, still open.
C6_SendReceiveFrame ==
    [][last'.op \in {"send", "receive"} =>
        /\ UNCHANGED table
        /\ DOMAIN fds' = DOMAIN fds
        /\ sockets'[last'.id % MAX_SOCKETS] = find_socket(last'.id)]_vars

\* C6 witness: a receive on a live identifier failed and the identifier still resolves
\* to the descriptor registered for it, which is open
C6_Witness ==
    /\ last.op = "receive"
    /\ last.wasLive
    /\ out.success = 0
    /\ last.ev = "rcvtimeo"
    /\ find_socket(last.id) = last.reg
    /\ last.reg \in OpenFds

\* C7: the first close of an identifier returned by a successful connect returns
\* {true, 0, None}, closes the descriptor registered for it, resets the slot to the
\* sentinel and decrements socket_count; a close of the same identifier right after
\* returns {false, 0, InvalidSocket} and changes nothing.
C7_CloseThenCloseAgain ==
    [][last'.op = "close" =>
        /\ last'.wasLive =>
              /\ out' = Ret(1, 0, ERROR_NONE)
              /\ last'.reg \notin DOMAIN fds'
              /\ sockets'[last'.id % MAX_SOCKETS] = INVALID_SOCKET
              /\ socket_count' = socket_count - 1
        /\ (last.op = "close" /\ last.wasLive /\ last'.id = last.id) =>
              /\ out' = Ret(0, 0, ERROR_INVALID_SOCKET)
              /\ UNCHANGED <<table, fds>>]_vars

\* C8: a receive with timeout_ms > 0 on a live identifier whose read outlasts the
\* receive timeout returns {false, 0, Timeout}.
C8_ReceiveTimeout ==
    (last.op = "receive" /\ last.wasLive /\ last.tmo > 0 /\ last.ev = "rcvtimeo")
        => out = Ret(0, 0, ERROR_TIMEOUT)

\* C9: a connect with timeout_ms > 0 that the peer refuses returns
\* {false, 0, ConnectionRefused}, whether connect() fails at once with the refusal or
\* the refusal is the pending error found after the readiness wait.
C9_ConnectRefused ==
    (/\ last.op = "connect"
     /\ last.tmo > 0
     /\ last.ev \in {"connect_failed", "pending_error"}
     /\ last.errno = "ECONNREFUSED")
        => out = Ret(0, 0, ERROR_CONNECTION_REFUSED)

\* C10: a receive on a live identifier whose peer has shut down in an orderly way and
\* whose queued data has all been read returns {false, 0, Closed}.
C10_ReceiveAfterShutdown ==
    [][(/\ last'.op = "receive"
        /\ last'.wasLive
        /\ last'.reg \in DOMAIN fds
        /\ fds[last'.reg].peer = "shut"
        /\ fds[last'.reg].rx = <<>>)
          => out' = Ret(0, 0, ERROR_CLOSED)]_vars

(***************************************************************************)
(* Streams, the table's counters and the calls the library makes           *)
(***************************************************************************)

\* a successful receive on a live identifier takes the bytes at the head of the stream
\* its own connection has queued, and removes exactly those
ReceiveInOrder ==
    (last'.op = "receive" /\ last'.wasLive /\ out'.success = 1)
        => /\ last'.reg \in DOMAIN fds
           /\ last'.reg \in DOMAIN fds'
           /\ last'.buf = SubSeq(fds[last'.reg].rx, 1, out'.value)
           /\ fds'[last'.reg].rx =
                  SubSeq(fds[last'.reg].rx, out'.value + 1, Len(fds[last'.reg].rx))

\* a successful send on a live identifier hands its bytes to the connection that
\* identifier was registered with, and reports the count that connection accepted
SendToOwnConnection ==
    (last'.op = "send" /\ last'.wasLive /\ out'.success = 1)
        => last'.fd = last'.reg /\ out'.value = last'.ret

\* C11: the bytes a live connection's sends are reported to have accepted are the
\* bytes handed to that connection, and the bytes its receives return are, in order
\* and with no loss or duplication, the head of the stream its peer sent.
C11_StreamIsFifo ==
    [][ReceiveInOrder /\ SendToOwnConnection]_vars

NonSentinelSlots == {i \in DOMAIN sockets : sockets[i] # INVALID_SOCKET}

\* C12: in every state at rest, the initial one included, socket_count is the number
\* of slots that do not hold INVALID_SOCKET, it lies in 0..MAX_SOCKETS, and every
\* such slot holds an open socket that a successful connect registered.
C12_CountMatchesSlots ==
    LET registered == {live[id] : id \in DOMAIN live} IN
    /\ socket_count = Cardinality(NonSentinelSlots)
    /\ socket_count \in 0..MAX_SOCKETS
    /\ \A i \in NonSentinelSlots :
          sockets[i] \in SocketFds /\ sockets[i] \in registered

\* C13: next_socket_id starts at 1, grows by one exactly on a successful connect,
\* whose identifier is the value it had, and is left alone by every other call, a
\* connect that fails on a full table included; so the identifiers are 1, 2, 3, ...
C13_IdentifiersSequential ==
    /\ next_socket_id = 1
    /\ [][/\ next_socket_id' =
                IF last'.op = "connect" /\ out'.success = 1
                THEN next_socket_id + 1
                ELSE next_socket_id
          /\ (last'.op = "connect" /\ out'.success = 1)
                => /\ out'.value = next_socket_id
                   /\ out'.value = Cardinality(returned) + 1
                   /\ returned' = 1..out'.value]_vars

\* a connect went all the way to store_socket on a full table and left the counter
C13_Witness ==
    /\ last.op = "connect"
    /\ last.ev \in {"connected", "in_progress", "ready"}
    /\ out = Ret(0, 0, ERROR_UNKNOWN)
    /\ socket_count = MAX_SOCKETS
    /\ next_socket_id = MAX_SOCKETS + 1
    /\ returned = 1..MAX_SOCKETS

\* the events of a connect whose connect() answered EINPROGRESS
InProgressEvents == {"in_progress", "wait_expired", "wait_failed", "pending_error", "ready"}

\* C14: a connect with timeout_ms = 0 whose connect() answers EINPROGRESS neither
\* waits nor asks for the pending error; with room in the table it registers the
\* socket, still connecting, and returns {true, id, None}.
C14_ZeroTimeoutSkipsWait ==
    [][(last'.op = "connect" /\ last'.tmo = 0 /\ last'.ev \in InProgressEvents)
          => /\ last'.ev = "in_progress"
             /\ socket_count < MAX_SOCKETS
                  => /\ out' = Ret(1, next_socket_id, ERROR_NONE)
                     /\ sockets'[next_socket_id % MAX_SOCKETS] = last'.new
                     /\ last'.new \in DOMAIN fds'
                     /\ fds'[last'.new].peer = "connecting"]_vars

C14_Witness ==
    /\ last.op = "connect"
    /\ last.tmo = 0
    /\ last.ev = "in_progress"
    /\ out = Ret(1, 1, ERROR_NONE)
    /\ find_socket(1) = last.new
    /\ fds[last.new].peer = "connecting"

\* C15: a connect with timeout_ms > 0 whose connect() answers EINPROGRESS returns
\* {false, 0, Timeout} when the wait expires and {false, 0, ConnectionRefused} for
\* every nonzero pending error, and goes on to register when the pending error is zero.
C15_InProgressOutcomes ==
    (last.op = "connect" /\ last.tmo > 0)
        => /\ last.ev = "wait_expired" => out = Ret(0, 0, ERROR_TIMEOUT)
           /\ last.ev = "pending_error"
                => last.errno # "OK" /\ out = Ret(0, 0, ERROR_CONNECTION_REFUSED)
           /\ last.ev = "ready"
                => \/ /\ out.success = 1
                      /\ out.error = ERROR_NONE
                      /\ find_socket(out.value) = last.new
                      /\ last.new \in SocketFds
                   \/ /\ out = Ret(0, 0, ERROR_UNKNOWN)
                      /\ socket_count >= MAX_SOCKETS

\* the pending error was a timeout of the handshake, reported as a refusal
C15_Witness ==
    /\ last.op = "connect"
    /\ last.tmo > 0
    /\ last.ev = "pending_error"
    /\ last.errno = "ETIMEDOUT"
    /\ out = Ret(0, 0, ERROR_CONNECTION_REFUSED)

\* C16: the receive timeout belongs to the descriptor and stays: a receive with
\* timeout_ms > 0 sets it to timeout_ms, a receive with timeout_ms <= 0 leaves the one
\* already in force, no other call touches it, and a new socket has none.
C16_ReceiveTimeoutPersists ==
    [][/\ (last'.op = "receive" /\ last'.fd \in SocketFds)
            => /\ last'.fd \in DOMAIN fds'
               /\ fds'[last'.fd].rcvtimeo =
                      IF last'.tmo > 0 THEN last'.tmo ELSE fds[last'.fd].rcvtimeo
               /\ last'.ev = "rcvtimeo" => fds'[last'.fd].rcvtimeo > 0
       /\ \A fd \in SocketFds \cap DOMAIN fds' :
             (last'.op # "receive" \/ last'.fd # fd)
                 => fds'[fd].rcvtimeo = fds[fd].rcvtimeo
       /\ \A fd \in DOMAIN fds' \ DOMAIN fds : fds'[fd].rcvtimeo = 0]_vars

\* a receive that passed no timeout of its own ran into the one an earlier receive set
C16_Witness ==
    /\ last.op = "receive"
    /\ last.wasLive
    /\ last.tmo <= 0
    /\ last.ev = "rcvtimeo"
    /\ fds[last.fd].rcvtimeo > 0
    /\ out = Ret(0, 0, ERROR_UNKNOWN)

\* C17: a send on a live identifier calls the OS send once and returns that call's
\* answer: {true, n, None} with 0 <= n <= length for a count n, the mapped error for
\* a failure; it does not go on to send what a partial send left.
C17_SendOnce ==
    (last.op = "send" /\ last.wasLive)
        => /\ last.calls = 1
           /\ IF last.ret = SOCKET_ERROR
              THEN out = Ret(0, 0, get_socket_error(last.errno))
              ELSE /\ out = Ret(1, last.ret, ERROR_NONE)
                   /\ 0 <= last.ret
                   /\ last.ret <= last.len

\* a partial send: fewer bytes accepted than passed, reported as they were
C17_Witness ==
    /\ last.op = "send"
    /\ last.wasLive
    /\ last.calls = 1
    /\ last.ret >= 1
    /\ last.ret < last.len
    /\ out = Ret(1, last.ret, ERROR_NONE)

IsOpenSocket(fd) == fd \in DOMAIN fds /\ fds[fd].kind = "sock"

\* every registered socket still open is in some slot, and no two slots hold the
\* same open socket
EachRegisteredSocketInOneSlot ==
    LET registered == {fd \in {live[id] : id \in DOMAIN live} : IsOpenSocket(fd)}
        slots == {i \in DOMAIN sockets : IsOpenSocket(sockets[i])}
    IN /\ registered \subseteq {sockets[i] : i \in slots}
       /\ Cardinality(slots) = Cardinality({sockets[i] : i \in slots})

\* C18: every socket a successful connect registered and no close has released is
\* held by exactly one slot of the table, and a connect never stores into a slot that
\* holds an open socket.
C18_NoRegisteredSocketLost ==
    [][/\ (last'.op = "connect" /\ out'.success = 1)
            => sockets[out'.value % MAX_SOCKETS] \notin SocketFds
       /\ EachRegisteredSocketInOneSlot']_vars

\* C19: a receive on a live identifier whose peer is connected and has neither shut
\* down nor reset does not return Closed, whatever buffer_len is, 0 included, and a
\* successful receive returns at least one byte.
C19_ClosedOnlyWhenPeerClosed ==
    [][(/\ last'.op = "receive"
        /\ last'.wasLive
        /\ last'.fd = last'.reg
        /\ last'.reg \in DOMAIN fds
        /\ fds[last'.reg].peer = "open")
          => /\ out'.error # ERROR_CLOSED
             /\ out'.success = 1 => out'.value >= 1]_vars

====
